---------------------------- MODULE Spec2Model ----------------------------
(***************************************************************************)
(* Auckland RouteSafe: the crime/route ETL pipeline of src/etl_master.py   *)
(* (variant "etl": polygon/line intersection plus stop containment) and of *)
(* src/elt_master.py (variant "elt": 50 m buffer around the route line).   *)
(*                                                                         *)
(* Tables (pandas / geopandas frames) are records                          *)
(*     [cols |-> set of column names, crs |-> text, rows |-> sequence]     *)
(* whose rows carry their index label in the field idx.  Geometries are    *)
(* sets of cells of a one-dimensional grid: a polygon, a line and a point  *)
(* are the cells they cover; neighbouring cells are less than 50 m apart.  *)
(* Text that the code transforms (area keys, authority names) is a         *)
(* sequence of one-character strings.                                      *)
(*                                                                         *)
(* Spec is a run of run_etl, stage by stage.  SpecAnalyze is a call of     *)
(* analyze_and_aggregate on tables of the shape its stages are written to  *)
(* hand over.                                                              *)
(***************************************************************************)
EXTENDS Integers, Sequences, FiniteSets, TLC

VARIABLES
    variant,                \* "etl" (src/etl_master.py) or "elt" (src/elt_master.py)
    pc,                     \* position of run_etl
    exit_status,            \* -1 while running, 0 on normal return, 1 after sys.exit(1)
    error,                  \* what was raised ("" if nothing)
    stages,                 \* the stages run_etl has entered, in order
    df_crime_columns,       \* fetch_and_clean_police_data: the CSV's column names
    df_auckland,            \* fetch_and_clean_police_data: the district-filtered rows
    df_merged,              \* fetch_and_clean_police_data: the key-joined district-filtered rows
    unmatched_count,        \* fetch_and_clean_police_data: rows of df_merged without geometry
    gdf_crime,              \* the crime table handed to analyze_and_aggregate
    gdf_routes,             \* the route table (caller's object)
    gdf_stops,              \* the stop table (caller's object)
    stop_routes,            \* reference data: STOPID -> route identifiers serving the stop
    combined_crime_routes,  \* analyze_and_aggregate: the association set
    geojson_out,            \* artifact OUTPUT_FILE
    stats_out,              \* artifact STATS_OUTPUT_FILE
    raw_keys,               \* area keys as delivered: [crime, ref]
    std_keys,               \* the same keys after standardisation: [crime, ref]
    service,                \* the feature service a paginated fetch talks to
    total_count,            \* fetch_arcgis_geometry: total_count
    offset,                 \* fetch_arcgis_geometry: offset
    all_geometry,           \* fetch_arcgis_geometry: the batches appended so far
    requests,               \* the page requests issued: [offset, returned]
    gdf_final               \* fetch_arcgis_geometry: the rows of the returned table

\* state of the key standardisation and of a paginated fetch
keyvars == <<raw_keys, std_keys>>
fetchvars == <<service, total_count, offset, all_geometry, requests, gdf_final>>

vars == <<variant, pc, exit_status, error, stages, df_crime_columns, df_auckland, df_merged,
          unmatched_count, gdf_crime, gdf_routes, gdf_stops, stop_routes,
          combined_crime_routes, geojson_out, stats_out, keyvars, fetchvars>>

-----------------------------------------------------------------------------
(* Bounds of the model *)

MaxCrimes == 2      \* rows of the crime CSV
MaxRoutes == 2      \* features of the route service
MaxStops == 1       \* features of the stop service

(* Program constants *)

ZFILL_WIDTH == 7

-----------------------------------------------------------------------------
(* Generic sequence helpers *)

Range(s) == {s[i] : i \in 1..Len(s)}

\* The subsequence of s at the positions in I, in order (boolean-mask selection).
SelectIdx(s, I) ==
    LET F[k \in 0..Len(s)] ==
            IF k = 0 THEN <<>>
            ELSE IF k \in I THEN Append(F[k-1], s[k]) ELSE F[k-1]
    IN F[Len(s)]

\* Concatenation of the sequences ss[1], ss[2], ...
Flatten(ss) ==
    LET F[k \in 0..Len(ss)] == IF k = 0 THEN <<>> ELSE F[k-1] \o ss[k]
    IN F[Len(ss)]

\* All sequences over S of length at most n.
SeqsUpTo(S, n) == UNION {[1..k -> S] : k \in 0..n}

-----------------------------------------------------------------------------
(* Text *)

LowerLetters == <<"a","b","c","d","e","f","g","h","i","j","k","l","m",
                  "n","o","p","q","r","s","t","u","v","w","x","y","z">>
UpperLetters == <<"A","B","C","D","E","F","G","H","I","J","K","L","M",
                  "N","O","P","Q","R","S","T","U","V","W","X","Y","Z">>
Digits == {"0","1","2","3","4","5","6","7","8","9"}

IsSpace(c) == c = " "
\* \w of the regular expression: letters, digits, underscore
IsWord(c) == \/ c \in Range(LowerLetters) \/ c \in Range(UpperLetters)
             \/ c \in Digits \/ c = "_"

UpperChar(c) ==
    IF \E i \in 1..26 : LowerLetters[i] = c
    THEN UpperLetters[CHOOSE i \in 1..26 : LowerLetters[i] = c]
    ELSE c

\* str.strip(): leading and trailing whitespace removed
Strip(s) ==
    LET nonsp == {i \in 1..Len(s) : ~IsSpace(s[i])}
    IN IF nonsp = {} THEN <<>>
       ELSE LET lo == CHOOSE i \in nonsp : \A j \in nonsp : i <= j
                hi == CHOOSE i \in nonsp : \A j \in nonsp : j <= i
            IN SubSeq(s, lo, hi)

\* faulty variant: no padding
Zfill_unpadded(s, width) == s

\* str.zfill(width): left-pad with "0" to the width, longer text unchanged
Zfill(s, width) ==
    IF Len(s) >= width THEN s
    ELSE [i \in 1..(width - Len(s)) |-> "0"] \o s

\* re.sub(r'\s+', ' ', s): every run of whitespace becomes one blank
CollapseSpaces(s) ==
    SelectIdx(s, {i \in 1..Len(s) : ~(IsSpace(s[i]) /\ i > 1 /\ IsSpace(s[i-1]))})

clean_territorial_authority(name) ==
    LET cleaned1 == SelectSeq(name, LAMBDA c : IsWord(c) \/ IsSpace(c))
        cleaned2 == Strip(CollapseSpaces(cleaned1))
    IN [i \in 1..Len(cleaned2) |-> UpperChar(cleaned2[i])]

AUCKLAND_AUTHORITIES ==
    << <<"A","u","c","k","l","a","n","d">>,
       <<"W","a","i","t","e","m","a","t","a">>,
       <<"C","o","u","n","t","i","e","s"," ","M","a","n","u","k","a","u">>,
       <<"F","r","a","n","k","l","i","n">>,
       <<"A","u","c","k","l","a","n","d"," ","C","i","t","y">> >>

AUCKLAND_AUTHORITIES_CLEANED ==
    {clean_territorial_authority(AUCKLAND_AUTHORITIES[i]) :
        i \in 1..Len(AUCKLAND_AUTHORITIES)}

-----------------------------------------------------------------------------
(* Dates.  A raw date cell is [sep, f]: the separator and the numeric fields *)
(* in the order written ("15/01/2023" is ["/", <<15, 1, 2023>>]).  A parsed  *)
(* value is a timestamp [y, m, d], or NaT.                                   *)

NaT == [y |-> 0, m |-> 0, d |-> 0]
NaN == "NaN"                         \* a missing text cell

IsLeap(y) == (y % 4 = 0 /\ y % 100 # 0) \/ y % 400 = 0

DaysInMonth(y, m) ==
    IF m = 2 THEN (IF IsLeap(y) THEN 29 ELSE 28)
    ELSE IF m \in {4, 6, 9, 11} THEN 30 ELSE 31

ValidDate(y, m, d) == m \in 1..12 /\ d >= 1 /\ d <= DaysInMonth(y, m)

\* pd.to_datetime(format='%d/%m/%Y', errors='coerce')
to_datetime_dmy(raw) ==
    IF raw.sep = "/" /\ Len(raw.f) = 3 /\ ValidDate(raw.f[3], raw.f[2], raw.f[1])
    THEN [y |-> raw.f[3], m |-> raw.f[2], d |-> raw.f[1]]
    ELSE NaT

\* pd.to_datetime(format='%Y-%m-%d', errors='coerce')
to_datetime_ymd(raw) ==
    IF raw.sep = "-" /\ Len(raw.f) = 3 /\ ValidDate(raw.f[1], raw.f[2], raw.f[3])
    THEN [y |-> raw.f[1], m |-> raw.f[2], d |-> raw.f[3]]
    ELSE NaT

\* chronological order of timestamps
DateKey(t) == t.y * 10000 + t.m * 100 + t.d

\* Series.dt.to_period('M')
to_period_M(t) == [y |-> t.y, m |-> t.m]

\* strftime('%Y-%m-%d'), and the text sentinels
strftime(t) == [text |-> "date", y |-> t.y, m |-> t.m, d |-> t.d]
Text(str) == [text |-> str, y |-> 0, m |-> 0, d |-> 0]

-----------------------------------------------------------------------------
(* Frames *)

Cells == {1, 2, 3}
NaNGeom == {}                        \* a missing geometry cell

\* gpd.GeoDataFrame(): no column, no CRS, no row
EmptyGeoDataFrame == [cols |-> {}, crs |-> "None", rows |-> <<>>]

IsEmpty(frame) == frame.rows = <<>>          \* DataFrame.empty

\* shapely predicates on the grid
Intersects(g1, g2) == g1 \cap g2 # {}
Contains(poly, pt) == pt # {} /\ pt \subseteq poly
\* geometry.buffer(50): the cells within 50 m
Buffer50(g) == {c \in Cells : \E x \in g : c - x \in {-1, 0, 1}}

\* GeoDataFrame.to_crs: a reprojection keeps the shapes' topology and retags
\* the frame; it needs an active geometry column.
CanToCrs(frame) == "geometry" \in frame.cols
to_crs(frame, crs) == [frame EXCEPT !.crs = crs]

-----------------------------------------------------------------------------
(* The inputs the external services can deliver *)

\* crime CSV cells: Meshblock, Territorial Authority, Year Month, ANZSOC Division
CrimeRowKinds ==
    { [mb |-> <<"1">>, ta |-> <<"A","u","c","k","l","a","n","d">>,
       ym |-> [sep |-> "/", f |-> <<15, 1, 2023>>], div |-> "Theft"],
      [mb |-> <<"0","0","0","0","0","0","1">>,
       ta |-> <<"A","u","c","k","l","a","n","d",".">>,
       ym |-> [sep |-> "/", f |-> <<31, 2, 2023>>], div |-> "Theft"],
      [mb |-> <<"2">>, ta |-> <<" ","w","a","i","t","e","m","a","t","a">>,
       ym |-> [sep |-> "/", f |-> <<1, 3, 2023>>], div |-> NaN],
      [mb |-> <<"0","0","0","0","0","0","1">>,
       ta |-> <<"A","u","c","k","l","a","n","d">>,
       ym |-> [sep |-> "-", f |-> <<2023, 1, 15>>], div |-> "Assault"],
      [mb |-> <<"9">>, ta |-> <<"A","u","c","k","l","a","n","d">>,
       ym |-> [sep |-> "/", f |-> <<15, 1, 2023>>], div |-> "Theft"],
      [mb |-> <<"1">>, ta |-> <<"W","e","l","l","i","n","g","t","o","n">>,
       ym |-> [sep |-> "/", f |-> <<15, 1, 2023>>], div |-> "Theft"] }

\* column names of the crime CSV, after the header clean-up: the header of the
\* police export, and headers with an alias or without a mandatory column
StandardHeader == {"Year Month", "Meshblock", "Territorial Authority", "ANZSOC Division"}

CsvColumnSets ==
    { StandardHeader,
      {"Year Month", "Census Meshblock", "Territorial Authority", "ANZSOC Division"},
      {"Meshblock", "Territorial Authority", "ANZSOC Division"},
      {"Year Month", "Area Unit", "Territorial Authority", "ANZSOC Division"} }

\* 'meshblock' in col.lower()
LowerHasMeshblock(col) == col \in {"Meshblock", "Census Meshblock"}

\* meshblock reference tables as the paginated fetch returns them
\* (MB_number as delivered, polygon); <<>> when nothing could be fetched
MeshblockRowA == [MB_number |-> <<"0","0","0","0","0","0","1">>, geometry |-> {1}]
MeshblockRowB == [MB_number |-> <<"2">>, geometry |-> {3}]
MeshblockTables ==
    { <<>>, <<MeshblockRowA, MeshblockRowB>>,
      <<MeshblockRowA, MeshblockRowB, MeshblockRowA>> }

\* features of the route service
RouteFeatureKinds ==
    { [ROUTENUMBER |-> "A", MODE |-> "Bus", geometry |-> {1}],
      [ROUTENUMBER |-> "A", MODE |-> "Bus", geometry |-> {1, 2, 3}],
      [ROUTENUMBER |-> "B", MODE |-> "Bus", geometry |-> {2, 3}],
      [ROUTENUMBER |-> "T", MODE |-> "Train", geometry |-> {1}] }

\* features of the stop service; serves is the reference data's stop-to-route
\* membership, which the pipeline does not fetch
StopFeatureKinds ==
    { [STOPID |-> 100, MODE |-> "Bus", geometry |-> {1}, serves |-> {"A", "B"}],
      [STOPID |-> 102, MODE |-> "Train", geometry |-> {3}, serves |-> {"T"}] }

-----------------------------------------------------------------------------
(* Stage 1: crime records and their meshblock geometry *)

\* etl_master.fetch_all_meshblock_geometry: the fetched table with MB_number
\* standardised to a 7-character key; GeoDataFrame() when nothing was fetched
fetch_all_meshblock_geometry(fetched) ==
    IF fetched = <<>> THEN EmptyGeoDataFrame
    ELSE [cols |-> {"MB_number", "geometry"}, crs |-> "EPSG:4326",
          rows |-> [i \in 1..Len(fetched) |->
                       [fetched[i] EXCEPT
                           !.MB_number = Zfill(Strip(@), ZFILL_WIDTH)]]]

\* elt_master.fetch_all_meshblock_geometry: MB_number is stripped only
fetch_all_meshblock_geometry_elt(fetched) ==
    IF fetched = <<>> THEN EmptyGeoDataFrame
    ELSE [cols |-> {"MB_number", "geometry"}, crs |-> "EPSG:4326",
          rows |-> [i \in 1..Len(fetched) |->
                       [fetched[i] EXCEPT !.MB_number = Strip(@)]]]

\* faulty variant: only the 'Year Month' column is required
SchemaError_year_month_only(columns) ==
    IF "Year Month" \notin columns THEN "KeyError: Year Month" ELSE ""

\* the mandatory-column checks on the cleaned CSV header; "" when they pass
SchemaError(columns) ==
    IF "Year Month" \notin columns THEN "KeyError: Year Month"
    ELSE IF "Meshblock" \notin columns
            /\ ~(\E col \in columns : LowerHasMeshblock(col))
         THEN "KeyError: Meshblock"
         ELSE ""

\* df_crime.rename(columns={<first meshblock-like column>: 'Meshblock'}) when
\* there is no 'Meshblock' column
RenameMeshblock(columns) ==
    IF "Meshblock" \notin columns /\ (\E col \in columns : LowerHasMeshblock(col))
    THEN LET first == CHOOSE col \in columns : LowerHasMeshblock(col)
         IN (columns \ {first}) \cup {"Meshblock"}
    ELSE columns

\* DataFrame.merge(how='left') of crime rows with the reference table on the
\* area key: one row per matching reference row, one row without geometry
\* when none matches; the result gets a fresh RangeIndex.
MergeLeft(left, right) ==
    LET RowsFor(l) ==
            LET m == SelectSeq(right, LAMBDA r : r.MB_number = l.Meshblock)
            IN IF m = <<>> THEN << [l EXCEPT !.geometry = NaNGeom] >>
               ELSE [k \in 1..Len(m) |-> [l EXCEPT !.geometry = m[k].geometry]]
        flat == Flatten([i \in 1..Len(left) |-> RowsFor(left[i])])
    IN [k \in 1..Len(flat) |-> [flat[k] EXCEPT !.idx = k - 1]]

\* DataFrame.dropna(subset=['geometry'])
DropNaGeometry(rows) == SelectSeq(rows, LAMBDA r : r.geometry # NaNGeom)

\* DataFrame.dropna(subset=['geometry', 'CrimeMonth', 'OffenceType'])
DropNaAll(rows) ==
    SelectSeq(rows, LAMBDA r : r.geometry # NaNGeom /\ r.CrimeMonth # NaT
                               /\ r.OffenceType # NaN)

CountNaGeometry(rows) == Cardinality({i \in 1..Len(rows) : rows[i].geometry = NaNGeom})

\* etl_master.fetch_and_clean_police_data.  csv = [ok, columns, rows] is the
\* downloaded file (ok = FALSE: the download failed), fetched the meshblock
\* table the paginated fetch delivers.
fetch_and_clean_police_data(csv, fetched) ==
    LET failed(msg, mesh, cols) ==
            [raised |-> msg, mesh_fetched |-> mesh, columns |-> cols,
             gdf_crime |-> EmptyGeoDataFrame, df_auckland |-> <<>>, df_merged |-> <<>>,
             unmatched_count |-> 0]
        gdf_meshblocks == fetch_all_meshblock_geometry(fetched)
        df_crime == [i \in 1..Len(csv.rows) |->
                        [idx |-> i - 1,
                         Meshblock |-> Zfill(Strip(csv.rows[i].mb), ZFILL_WIDTH),
                         PoliceDistrict |-> clean_territorial_authority(csv.rows[i].ta),
                         CrimeMonth |-> csv.rows[i].ym,
                         OffenceType |-> csv.rows[i].div,
                         geometry |-> NaNGeom]]
        filtered == SelectSeq(df_crime,
                          LAMBDA r : r.PoliceDistrict \in AUCKLAND_AUTHORITIES_CLEANED)
        merged == MergeLeft(filtered, gdf_meshblocks.rows)
        parsed == [k \in 1..Len(merged) |->
                      [merged[k] EXCEPT !.CrimeMonth = to_datetime_dmy(@)]]
        df_final == DropNaGeometry(parsed)
    IN IF ~csv.ok THEN failed("download failed", FALSE, {})
       ELSE IF SchemaError(csv.columns) # ""
       THEN failed(SchemaError(csv.columns), FALSE, csv.columns)
       ELSE IF IsEmpty(gdf_meshblocks)
       THEN failed("", TRUE, RenameMeshblock(csv.columns))
       ELSE [raised |-> "", mesh_fetched |-> TRUE, columns |-> RenameMeshblock(csv.columns),
             gdf_crime |-> [cols |-> {"OffenceType", "PoliceDistrict", "CrimeMonth",
                                      "geometry", "Meshblock"},
                            crs |-> "EPSG:4326", rows |-> df_final],
             df_auckland |-> filtered,
             df_merged |-> parsed,
             unmatched_count |-> CountNaGeometry(parsed)]

\* elt_master.fetch_and_clean_police_data: keys are stripped only, the key join
\* runs before the district filter, dates are parsed as %Y-%m-%d, and rows
\* without geometry, month or offence type are all dropped.  df_merged is
\* df_final as it stands before that dropna.
fetch_and_clean_police_data_elt(csv, fetched) ==
    LET failed(msg, mesh, cols) ==
            [raised |-> msg, mesh_fetched |-> mesh, columns |-> cols,
             gdf_crime |-> EmptyGeoDataFrame, df_auckland |-> <<>>, df_merged |-> <<>>,
             unmatched_count |-> 0]
        gdf_meshblocks == fetch_all_meshblock_geometry_elt(fetched)
        df_crime == [i \in 1..Len(csv.rows) |->
                        [idx |-> i - 1,
                         Meshblock |-> Strip(csv.rows[i].mb),
                         PoliceDistrict |-> clean_territorial_authority(csv.rows[i].ta),
                         CrimeMonth |-> csv.rows[i].ym,
                         OffenceType |-> csv.rows[i].div,
                         geometry |-> NaNGeom]]
        merged == MergeLeft(df_crime, gdf_meshblocks.rows)
        filtered == SelectSeq(merged,
                          LAMBDA r : r.PoliceDistrict \in AUCKLAND_AUTHORITIES_CLEANED)
        parsed == [k \in 1..Len(filtered) |->
                      [filtered[k] EXCEPT !.CrimeMonth = to_datetime_ymd(@)]]
        df_final == DropNaAll(parsed)
    IN IF ~csv.ok THEN failed("download failed", FALSE, {})
       ELSE IF SchemaError(csv.columns) # ""
       THEN failed(SchemaError(csv.columns), FALSE, csv.columns)
       ELSE IF IsEmpty(gdf_meshblocks)
       THEN failed("", TRUE, RenameMeshblock(csv.columns))
       ELSE [raised |-> "", mesh_fetched |-> TRUE, columns |-> RenameMeshblock(csv.columns),
             gdf_crime |-> [cols |-> {"OffenceType", "PoliceDistrict", "CrimeMonth",
                                      "geometry"},
                            crs |-> "EPSG:4326", rows |-> df_final],
             df_auckland |-> filtered,
             df_merged |-> parsed,
             unmatched_count |-> CountNaGeometry(parsed)]

-----------------------------------------------------------------------------
(* Stages 2 and 3: routes and stops *)

\* fetch_route_geometry: the Bus features, keeping their index labels
fetch_route_geometry(features) ==
    LET all == [i \in 1..Len(features) |->
                   [idx |-> i - 1, MODE |-> features[i].MODE,
                    RouteNo |-> features[i].ROUTENUMBER,
                    geometry |-> features[i].geometry]]
        bus == SelectSeq(all, LAMBDA r : r.MODE = "Bus")
    IN [cols |-> {"Route No", "geometry"}, crs |-> "EPSG:4326",
        rows |-> [k \in 1..Len(bus) |->
                     [idx |-> bus[k].idx, RouteNo |-> bus[k].RouteNo,
                      geometry |-> bus[k].geometry]]]

\* fetch_stop_geometry.  GeoDataFrame() when the paginated fetch delivered
\* nothing.  Otherwise every column name is upper-cased, the geometry column
\* with it, so the frame has no column 'geometry' left when to_crs and the
\* final ['STOPID', 'geometry'] selection ask for it.
fetch_stop_geometry(features) ==
    IF features = <<>> THEN [raised |-> "", gdf_stops |-> EmptyGeoDataFrame]
    ELSE LET bus == SelectSeq(features, LAMBDA f : f.MODE = "Bus")
             gdf == [cols |-> {"STOPID", "STOPNAME", "MODE", "GEOMETRY"},
                     crs |-> "EPSG:2193",
                     rows |-> [k \in 1..Len(bus) |->
                                  [STOPID |-> bus[k].STOPID,
                                   geometry |-> bus[k].geometry]]]
         IN IF ~CanToCrs(gdf)
            THEN [raised |-> "no geometry column", gdf_stops |-> EmptyGeoDataFrame]
            ELSE [raised |-> "",
                  gdf_stops |-> [to_crs(gdf, "EPSG:4326") EXCEPT
                                    !.cols = {"STOPID", "geometry"}]]

\* A stop table as analyze_and_aggregate reads it: STOPID and point geometry
\* of the Bus stops in EPSG:4326; GeoDataFrame() for an empty fetch.
stop_table(features) ==
    IF features = <<>> THEN EmptyGeoDataFrame
    ELSE LET bus == SelectSeq(features, LAMBDA f : f.MODE = "Bus")
         IN [cols |-> {"STOPID", "geometry"}, crs |-> "EPSG:4326",
             rows |-> [k \in 1..Len(bus) |->
                          [STOPID |-> bus[k].STOPID, geometry |-> bus[k].geometry]]]

-----------------------------------------------------------------------------
(* Stage 4: spatial analysis and aggregation *)

TARGET_CRS == "EPSG:2193"

EmptyMap == [k \in {} |-> 0]
\* faulty variant: an existing entry is kept
Put_keep_first(map, key, value) ==
    [k \in (DOMAIN map) \cup {key} |-> IF k \in DOMAIN map THEN map[k] ELSE value]

\* dict[key] = value
Put(map, key, value) ==
    [k \in (DOMAIN map) \cup {key} |-> IF k = key THEN value ELSE map[k]]

\* DataFrame.drop_duplicates(subset=...): keys[i] is the subset's value in
\* row i; the first row of every key is kept
DropDuplicates(rows, keys) ==
    SelectIdx(rows, {i \in 1..Len(rows) : \A j \in 1..(i - 1) : keys[j] # keys[i]})

\* the members of a set of numbers in ascending order
RECURSIVE SortedSeq(_)
SortedSeq(S) ==
    IF S = {} THEN <<>>
    ELSE LET lo == CHOOSE x \in S : \A y \in S : x <= y
         IN <<lo>> \o SortedSeq(S \ {lo})

\* groupby(key).size() as a map from the keys present to their row counts;
\* keys[i] is the key of row i
GroupSize(keys) ==
    [k \in Range(keys) |-> Cardinality({i \in 1..Len(keys) : keys[i] = k})]

\* gpd.sjoin(crimes, routes, how='inner', predicate='intersects')
line_join(crime_rows, route_rows) ==
    LET RowsFor(c) ==
            LET hit == SelectSeq(route_rows,
                                 LAMBDA r : Intersects(c.geometry, r.geometry))
            IN [k \in 1..Len(hit) |->
                   [crime_data_id |-> c.idx, Meshblock |-> c.Meshblock,
                    route_geom_id |-> hit[k].idx, RouteNo |-> hit[k].RouteNo]]
    IN Flatten([i \in 1..Len(crime_rows) |-> RowsFor(crime_rows[i])])

\* gpd.sjoin(crimes, stops, how='inner', predicate='contains')
stop_join(crime_rows, stop_rows) ==
    LET RowsFor(c) ==
            LET hit == SelectSeq(stop_rows,
                                 LAMBDA s : Contains(c.geometry, s.geometry))
            IN [k \in 1..Len(hit) |->
                   [crime_data_id |-> c.idx, Meshblock |-> c.Meshblock,
                    STOPID |-> hit[k].STOPID]]
    IN Flatten([i \in 1..Len(crime_rows) |-> RowsFor(crime_rows[i])])

\* the line_join rows whose meshblock contains a stop, one per (crime, Route No)
stop_route_join(lj, sj) ==
    LET crime_meshblocks_with_stops == {sj[i].Meshblock : i \in 1..Len(sj)}
        merged == SelectSeq(lj, LAMBDA r : r.Meshblock \in crime_meshblocks_with_stops)
    IN DropDuplicates(merged, [i \in 1..Len(merged) |->
                                  <<merged[i].crime_data_id, merged[i].RouteNo>>])

\* pd.concat([line_join, stop_route_join]).drop_duplicates(
\*     subset=['crime_data_id', 'Route No'])
CombineKey(r) == <<r.crime_data_id, r.RouteNo>>

\* faulty variant: the concatenation is not de-duplicated
combine_crime_routes_no_dedup(lj, srj) ==
    DropDuplicates(lj, lj) \o srj

combine_crime_routes(lj, srj) ==
    LET both == DropDuplicates(lj, lj) \o srj
    IN DropDuplicates(both, [i \in 1..Len(both) |-> CombineKey(both[i])])

\* merge of the crime attributes onto the association rows (crime_counts)
crime_counts_of(assoc, crime_rows) ==
    [k \in 1..Len(assoc) |->
        LET c == CHOOSE c \in Range(crime_rows) : c.idx = assoc[k].crime_data_id
        IN [crime_data_id |-> assoc[k].crime_data_id,
            route_geom_id |-> assoc[k].route_geom_id,
            RouteNo |-> assoc[k].RouteNo,
            OffenceType |-> c.OffenceType, CrimeMonth |-> c.CrimeMonth]]

\* faulty variant: rows without a month are grouped too
monthly_trend_keep_nat(route_data) ==
    GroupSize([i \in 1..Len(route_data) |-> to_period_M(route_data[i].CrimeMonth)])

\* route_data.dropna(subset=['CrimeMonth']) grouped by calendar month
monthly_trend_of(route_data) ==
    LET valid_dates == SelectSeq(route_data, LAMBDA r : r.CrimeMonth # NaT)
    IN GroupSize([i \in 1..Len(valid_dates) |-> to_period_M(valid_dates[i].CrimeMonth)])

\* route_data['OffenceType'].value_counts(): missing values are not counted
type_breakdown_of(route_data) ==
    LET present == SelectSeq(route_data, LAMBDA r : r.OffenceType # NaN)
    IN GroupSize([i \in 1..Len(present) |-> present[i].OffenceType])

\* faulty variant: the missing months are not dropped
valid_crime_months_keep_nat(crime_counts) ==
    {crime_counts[i].CrimeMonth : i \in 1..Len(crime_counts)}

\* crime_counts['CrimeMonth'].dropna(), as the set of its values
valid_crime_months(crime_counts) ==
    {crime_counts[i].CrimeMonth : i \in 1..Len(crime_counts)} \ {NaT}

\* the earliest / latest of a non-empty set of timestamps
MinDate(S) == CHOOSE t \in S : \A u \in S : DateKey(t) <= DateKey(u)
MaxDate(S) == CHOOSE t \in S : \A u \in S : DateKey(u) <= DateKey(t)

\* empty_geojson_output of etl_master: the rows written, and what the call
\* leaves in the caller's frame (the column is added to the caller's object
\* unless to_crs rebinds the name first)
empty_geojson_rows(routes) ==
    [k \in 1..Len(routes.rows) |->
        [RouteNo |-> routes.rows[k].RouteNo, Total_Crime_Count |-> 0,
         geometry |-> routes.rows[k].geometry]]

empty_geojson_output(routes) ==
    [rows |-> empty_geojson_rows(routes),
     caller |-> IF routes.crs # "EPSG:4326" THEN routes
                ELSE [routes EXCEPT !.cols = @ \cup {"Total_Crime_Count"}]]

\* empty_geojson_output of elt_master: the column is always added to the
\* caller's frame
empty_geojson_output_elt(routes) ==
    [rows |-> empty_geojson_rows(routes),
     caller |-> [routes EXCEPT !.cols = @ \cup {"Total_Crime_Count"}]]

empty_stats_output(min_date, max_date, buffer) ==
    [metadata |-> [crime_period_start |-> min_date, crime_period_end |-> max_date,
                   buffer_distance_m |-> buffer],
     routes |-> EmptyMap]

\* the route loop: one detail entry per route_geom_id of the summary, written
\* under the route's Route No in ascending route_geom_id order
RECURSIVE route_details(_, _, _, _)
route_details(ids, counts, route_rows, acc) ==
    IF ids = <<>> THEN acc
    ELSE LET route_id == Head(ids)
             route_data == SelectSeq(counts, LAMBDA r : r.route_geom_id = route_id)
             route_no == (CHOOSE r \in Range(route_rows) : r.idx = route_id).RouteNo
         IN route_details(Tail(ids), counts, route_rows,
                Put(acc, route_no,
                    [monthly_trend |-> monthly_trend_of(route_data),
                     type_breakdown |-> type_breakdown_of(route_data)]))

\* faulty variant: the totals are matched to the routes by position, not by index label
merge_totals_by_position(route_rows, totals) ==
    [k \in 1..Len(route_rows) |->
        [RouteNo |-> route_rows[k].RouteNo,
         Total_Crime_Count |-> IF k - 1 \in DOMAIN totals THEN totals[k - 1] ELSE 0,
         geometry |-> route_rows[k].geometry]]

\* faulty variant: an inner merge, which keeps only the routes that have a total
merge_totals_inner(route_rows, totals) ==
    LET kept == SelectSeq(route_rows, LAMBDA r : r.idx \in DOMAIN totals)
    IN [k \in 1..Len(kept) |->
           [RouteNo |-> kept[k].RouteNo, Total_Crime_Count |-> totals[kept[k].idx],
            geometry |-> kept[k].geometry]]

\* gdf_routes_proj.merge(total_crime_summary, how='left') with fillna(0)
merge_totals(route_rows, totals) ==
    [k \in 1..Len(route_rows) |->
        [RouteNo |-> route_rows[k].RouteNo,
         Total_Crime_Count |-> IF route_rows[k].idx \in DOMAIN totals
                               THEN totals[route_rows[k].idx] ELSE 0,
         geometry |-> route_rows[k].geometry]]

NotWritten == [written |-> FALSE, rows |-> <<>>]
NoStats == [written |-> FALSE,
            metadata |-> [crime_period_start |-> Text(""), crime_period_end |-> Text(""),
                          buffer_distance_m |-> ""],
            routes |-> EmptyMap]

BUFFER_DISTANCE_M == "0 (Polygon-Line/Polygon-Point)"

\* etl_master.analyze_and_aggregate: what it raises, what it leaves in the
\* caller's frames, its association set and the two artifacts
analyze_and_aggregate(routes, crime, stops) ==
    LET empty_out(assoc, crime_left) ==
            [raised |-> "", gdf_routes |-> empty_geojson_output(routes).caller,
             gdf_crime |-> crime_left, combined_crime_routes |-> assoc,
             geojson |-> [written |-> TRUE, rows |-> empty_geojson_output(routes).rows],
             stats |-> [written |-> TRUE] @@
                       empty_stats_output(Text("N/A"), Text("N/A"), BUFFER_DISTANCE_M)]
        crime_after == IF crime.crs # "EPSG:4326"
                       THEN [crime EXCEPT !.crs = "EPSG:4326"] ELSE crime
        gdf_routes_proj == to_crs(routes, TARGET_CRS)
        gdf_stops_proj == to_crs(stops, TARGET_CRS)
        gdf_crime_proj == to_crs(crime_after, TARGET_CRS)
        lj == line_join(gdf_crime_proj.rows, gdf_routes_proj.rows)
        sj == stop_join(gdf_crime_proj.rows, gdf_stops_proj.rows)
        combined == combine_crime_routes(lj, stop_route_join(lj, sj))
        crime_counts == crime_counts_of(combined, gdf_crime_proj.rows)
        months == valid_crime_months(crime_counts)
        min_date == IF months # {} THEN strftime(MinDate(months))
                    ELSE Text("N/A (All dates invalid)")
        max_date == IF months # {} THEN strftime(MaxDate(months))
                    ELSE Text("N/A (All dates invalid)")
        total_crime_summary ==
            GroupSize([i \in 1..Len(crime_counts) |-> crime_counts[i].route_geom_id])
        details == route_details(SortedSeq(DOMAIN total_crime_summary), crime_counts,
                                 gdf_routes_proj.rows, EmptyMap)
    IN IF IsEmpty(crime) THEN empty_out(<<>>, crime)
       ELSE IF ~CanToCrs(stops)
       THEN [raised |-> "to_crs: no geometry column", gdf_routes |-> routes,
             gdf_crime |-> crime, combined_crime_routes |-> <<>>,
             geojson |-> NotWritten, stats |-> NoStats]
       ELSE IF crime_counts = <<>> THEN empty_out(combined, crime_after)
       ELSE [raised |-> "", gdf_routes |-> routes, gdf_crime |-> crime_after,
             combined_crime_routes |-> combined,
             geojson |-> [written |-> TRUE,
                          rows |-> merge_totals(gdf_routes_proj.rows, total_crime_summary)],
             stats |-> [written |-> TRUE,
                        metadata |-> [crime_period_start |-> min_date,
                                      crime_period_end |-> max_date,
                                      buffer_distance_m |-> BUFFER_DISTANCE_M],
                        routes |-> details]]

\* gpd.sjoin(gdf_crime_proj, gdf_routes_buffer.reset_index(), how='inner',
\*           predicate='intersects') of elt_master: index_right is the route's
\* position in the frame, kept here in route_geom_id
buffer_join(crime_rows, route_rows) ==
    LET RowsFor(c) ==
            LET hit == SelectIdx([k \in 1..Len(route_rows) |-> k],
                           {k \in 1..Len(route_rows) :
                               Intersects(c.geometry, Buffer50(route_rows[k].geometry))})
            IN [n \in 1..Len(hit) |->
                   [crime_data_id |-> c.idx, route_geom_id |-> hit[n] - 1,
                    RouteNo |-> route_rows[hit[n]].RouteNo,
                    OffenceType |-> c.OffenceType, CrimeMonth |-> c.CrimeMonth]]
    IN Flatten([i \in 1..Len(crime_rows) |-> RowsFor(crime_rows[i])])

\* elt_master.analyze_and_aggregate
analyze_and_aggregate_elt(routes, crime) ==
    LET gdf_routes_buffer == to_crs(routes, TARGET_CRS)
        gdf_crime_proj == to_crs(crime, TARGET_CRS)
        crime_counts == buffer_join(gdf_crime_proj.rows, gdf_routes_buffer.rows)
        months == {crime_counts[i].CrimeMonth : i \in 1..Len(crime_counts)} \ {NaT}
        total_crime_summary ==
            GroupSize([i \in 1..Len(crime_counts) |-> crime_counts[i].route_geom_id])
        \* gdf_routes_buffer.loc[route_index, 'Route No'] looks the position up
        \* among the index labels
        loc_misses == \E route_index \in DOMAIN total_crime_summary :
                          \A r \in Range(gdf_routes_buffer.rows) : r.idx # route_index
        details == route_details(SortedSeq(DOMAIN total_crime_summary), crime_counts,
                                 gdf_routes_buffer.rows, EmptyMap)
        raise(msg) == [raised |-> msg, gdf_routes |-> routes, gdf_crime |-> crime,
                       combined_crime_routes |-> <<>>,
                       geojson |-> NotWritten, stats |-> NoStats]
    IN IF IsEmpty(crime)
       THEN [raised |-> "", gdf_routes |-> empty_geojson_output_elt(routes).caller,
             gdf_crime |-> crime, combined_crime_routes |-> <<>>,
             geojson |-> [written |-> TRUE,
                          rows |-> empty_geojson_output_elt(routes).rows],
             stats |-> [written |-> TRUE] @@
                       empty_stats_output(Text("N/A"), Text("N/A"), "50")]
       ELSE IF crime_counts # <<>> /\ months = {}
       THEN raise("ValueError: NaT strftime")
       ELSE IF loc_misses THEN raise("KeyError: route index")
       ELSE [raised |-> "", gdf_routes |-> routes, gdf_crime |-> crime,
             combined_crime_routes |-> crime_counts,
             geojson |-> [written |-> TRUE,
                          rows |-> merge_totals(gdf_routes_buffer.rows,
                                                total_crime_summary)],
             stats |-> [written |-> TRUE,
                        metadata |->
                          [crime_period_start |->
                               IF crime_counts = <<>> THEN Text("N/A")
                               ELSE strftime(MinDate(months)),
                           crime_period_end |->
                               IF crime_counts = <<>> THEN Text("N/A")
                               ELSE strftime(MaxDate(months)),
                           buffer_distance_m |-> "50"],
                        routes |-> details]]

-----------------------------------------------------------------------------
(* run_etl *)

Variants == {"etl", "elt"}

\* the (stop, route identifier) pairs of the reference data's stop-to-route
\* membership
stop_membership(features) ==
    UNION {{<<f.STOPID, r>> : r \in f.serves} : f \in Range(features)}

\* no key standardisation and no paginated fetch is being observed
NoKeys == raw_keys = <<>> /\ std_keys = <<>>

NoFetch ==
    /\ service = [count |-> 0, cap |-> 0]
    /\ total_count = 0
    /\ offset = 0
    /\ all_geometry = <<>>
    /\ requests = <<>>
    /\ gdf_final = <<>>

Init ==
    /\ variant \in Variants
    /\ pc = "start"
    /\ exit_status = -1
    /\ error = ""
    /\ stages = <<>>
    /\ df_crime_columns = {}
    /\ df_auckland = <<>>
    /\ df_merged = <<>>
    /\ unmatched_count = 0
    /\ gdf_crime = EmptyGeoDataFrame
    /\ gdf_routes = EmptyGeoDataFrame
    /\ gdf_stops = EmptyGeoDataFrame
    /\ stop_routes = {}
    /\ combined_crime_routes = <<>>
    /\ geojson_out = NotWritten
    /\ stats_out = NoStats
    /\ NoKeys
    /\ NoFetch

CsvInputs ==
    {[ok |-> FALSE, columns |-> {}, rows |-> <<>>]} \cup
    [ok : {TRUE}, columns : CsvColumnSets, rows : SeqsUpTo(CrimeRowKinds, MaxCrimes)]

\* except Exception: print(...); sys.exit(1)
Abort(msg) ==
    /\ pc' = "failed"
    /\ exit_status' = 1
    /\ error' = msg

\* POLICE_DATA_URL is not set
MissingUrl ==
    /\ pc = "start"
    /\ Abort("POLICE_DATA_URL missing")
    /\ UNCHANGED <<variant, stages, df_crime_columns, df_auckland, df_merged,
                   unmatched_count, gdf_crime, gdf_routes, gdf_stops, stop_routes,
                   combined_crime_routes, geojson_out, stats_out, keyvars, fetchvars>>

\* gdf_crime = fetch_and_clean_police_data(POLICE_DATA_URL, MESHBLOCK_BASE_URL)
FetchCrime ==
    /\ pc = "start"
    /\ \E csv \in CsvInputs, fetched \in MeshblockTables :
         LET res == IF variant = "etl"
                    THEN fetch_and_clean_police_data(csv, fetched)
                    ELSE fetch_and_clean_police_data_elt(csv, fetched)
         IN /\ df_crime_columns' = res.columns
            /\ stages' = IF res.mesh_fetched
                         THEN <<"fetch_and_clean_police_data",
                                "fetch_all_meshblock_geometry">>
                         ELSE <<"fetch_and_clean_police_data">>
            /\ IF res.raised # ""
               THEN /\ Abort(res.raised)
                    /\ UNCHANGED <<df_auckland, df_merged, unmatched_count, gdf_crime>>
               ELSE /\ pc' = "crime_done"
                    /\ gdf_crime' = res.gdf_crime
                    /\ df_auckland' = res.df_auckland
                    /\ df_merged' = res.df_merged
                    /\ unmatched_count' = res.unmatched_count
                    /\ UNCHANGED <<exit_status, error>>
    /\ UNCHANGED <<variant, gdf_routes, gdf_stops, stop_routes, combined_crime_routes,
                   geojson_out, stats_out, keyvars, fetchvars>>

\* gdf_routes = fetch_route_geometry()
FetchRoutes ==
    /\ pc = "crime_done"
    /\ stages' = Append(stages, "fetch_route_geometry")
    /\ \E features \in SeqsUpTo(RouteFeatureKinds, MaxRoutes) :
         gdf_routes' = fetch_route_geometry(features)
    /\ pc' = IF variant = "etl" THEN "routes_done" ELSE "stops_done"
    /\ UNCHANGED <<variant, exit_status, error, df_crime_columns, df_auckland, df_merged,
                   unmatched_count, gdf_crime, gdf_stops, stop_routes,
                   combined_crime_routes, geojson_out, stats_out, keyvars, fetchvars>>

\* fetch_route_geometry re-raises a failed request
FetchRoutesFails ==
    /\ pc = "crime_done"
    /\ stages' = Append(stages, "fetch_route_geometry")
    /\ Abort("route fetch failed")
    /\ UNCHANGED <<variant, df_crime_columns, df_auckland, df_merged, unmatched_count,
                   gdf_crime, gdf_routes, gdf_stops, stop_routes, combined_crime_routes,
                   geojson_out, stats_out, keyvars, fetchvars>>

\* gdf_stops = fetch_stop_geometry()  (etl_master only)
FetchStops ==
    /\ pc = "routes_done"
    /\ stages' = Append(stages, "fetch_stop_geometry")
    /\ \E features \in SeqsUpTo(StopFeatureKinds, MaxStops) :
         LET res == fetch_stop_geometry(features)
         IN /\ stop_routes' = stop_membership(features)
            /\ IF res.raised # ""
               THEN /\ Abort(res.raised)
                    /\ UNCHANGED gdf_stops
               ELSE /\ pc' = "stops_done"
                    /\ gdf_stops' = res.gdf_stops
                    /\ UNCHANGED <<exit_status, error>>
    /\ UNCHANGED <<variant, df_crime_columns, df_auckland, df_merged, unmatched_count,
                   gdf_crime, gdf_routes, combined_crime_routes, geojson_out, stats_out,
                   keyvars, fetchvars>>

\* analyze_and_aggregate(gdf_routes, gdf_crime, gdf_stops), then the normal
\* return of run_etl or its except branch
Analyze ==
    /\ pc = "stops_done"
    /\ stages' = Append(stages, "analyze_and_aggregate")
    /\ LET res == IF variant = "etl"
                  THEN analyze_and_aggregate(gdf_routes, gdf_crime, gdf_stops)
                  ELSE analyze_and_aggregate_elt(gdf_routes, gdf_crime)
       IN /\ gdf_routes' = res.gdf_routes
          /\ gdf_crime' = res.gdf_crime
          /\ combined_crime_routes' = res.combined_crime_routes
          /\ geojson_out' = res.geojson
          /\ stats_out' = res.stats
          /\ IF res.raised # "" THEN Abort(res.raised)
             ELSE /\ pc' = "done"
                  /\ exit_status' = 0
                  /\ UNCHANGED error
    /\ UNCHANGED <<variant, df_crime_columns, df_auckland, df_merged, unmatched_count,
                   gdf_stops, stop_routes, keyvars, fetchvars>>

Next == MissingUrl \/ FetchCrime \/ FetchRoutes \/ FetchRoutesFails \/ FetchStops \/ Analyze

Spec == Init /\ [][Next]_vars

\* analyze_and_aggregate called on its own: a crime table as stage 1 builds
\* it, a route table as stage 2 builds it and, for etl_master, a stop table of
\* the shape the function reads.
InitAnalyze ==
    /\ variant \in Variants
    /\ pc = "stops_done"
    /\ exit_status = -1
    /\ error = ""
    /\ stages = <<>>
    /\ \E rows \in SeqsUpTo(CrimeRowKinds, MaxCrimes), fetched \in MeshblockTables :
         LET csv == [ok |-> TRUE, columns |-> StandardHeader, rows |-> rows]
             res == IF variant = "etl"
                    THEN fetch_and_clean_police_data(csv, fetched)
                    ELSE fetch_and_clean_police_data_elt(csv, fetched)
         IN /\ res.raised = ""
            /\ df_crime_columns = res.columns
            /\ df_auckland = res.df_auckland
            /\ df_merged = res.df_merged
            /\ unmatched_count = res.unmatched_count
            /\ gdf_crime = res.gdf_crime
    /\ \E features \in SeqsUpTo(RouteFeatureKinds, MaxRoutes) :
         gdf_routes = fetch_route_geometry(features)
    /\ \E features \in SeqsUpTo(StopFeatureKinds, MaxStops) :
         /\ gdf_stops = IF variant = "etl" THEN stop_table(features)
                        ELSE EmptyGeoDataFrame
         /\ stop_routes = IF variant = "etl" THEN stop_membership(features) ELSE {}
    /\ combined_crime_routes = <<>>
    /\ geojson_out = NotWritten
    /\ stats_out = NoStats
    /\ NoKeys
    /\ NoFetch

NextAnalyze == Analyze

SpecAnalyze == InitAnalyze /\ [][NextAnalyze]_vars

-----------------------------------------------------------------------------
(* Properties.  "Associations of a route" are the rows of the association    *)
(* set that carry the route's route_geom_id; the k-th row of the route-level *)
(* output belongs to the k-th row of the route table.                        *)

EtlReturned == variant = "etl" /\ pc = "done"

CrimeRows == Range(gdf_crime.rows)
RouteRows == Range(gdf_routes.rows)
StopRows == Range(gdf_stops.rows)

\* positions of the association rows of the route with index label g
AssocOfRoute(g) ==
    {i \in 1..Len(combined_crime_routes) : combined_crime_routes[i].route_geom_id = g}

\* the crime record behind an association row
CrimeOf(entry) == CHOOSE c \in CrimeRows : c.idx = entry.crime_data_id

RECURSIVE SumMap(_)
SumMap(map) ==
    IF DOMAIN map = {} THEN 0
    ELSE LET k == CHOOSE k \in DOMAIN map : TRUE
         IN map[k] + SumMap([x \in (DOMAIN map) \ {k} |-> map[x]])

\* C1: after analyze_and_aggregate has combined the line-intersection join and
\* the stop-containment join, the association set holds at most one entry per
\* (crime identifier, route identifier) pair; a crime polygon that intersects
\* route A's line and contains a stop of route A yields exactly one (crime, A)
\* entry.
C1_NoDuplicatePairs ==
    EtlReturned =>
      /\ \A i, j \in 1..Len(combined_crime_routes) :
            ( /\ combined_crime_routes[i].crime_data_id
                   = combined_crime_routes[j].crime_data_id
              /\ combined_crime_routes[i].RouteNo = combined_crime_routes[j].RouteNo )
            => i = j
      /\ \A c \in CrimeRows, r \in RouteRows, s \in StopRows :
            ( /\ Intersects(c.geometry, r.geometry)
              /\ Contains(c.geometry, s.geometry)
              /\ <<s.STOPID, r.RouteNo>> \in stop_routes )
            => Cardinality({i \in 1..Len(combined_crime_routes) :
                              /\ combined_crime_routes[i].crime_data_id = c.idx
                              /\ combined_crime_routes[i].RouteNo = r.RouteNo}) = 1

\* a crime polygon intersects a route's line and contains one of its stops
C1_Witness ==
    /\ EtlReturned
    /\ \E c \in CrimeRows, r \in RouteRows, s \in StopRows :
          /\ Intersects(c.geometry, r.geometry)
          /\ Contains(c.geometry, s.geometry)
          /\ <<s.STOPID, r.RouteNo>> \in stop_routes

\* C2: for every resolved crime record c and every route r of the route table
\* whose line intersects c's polygon, the final association set holds an entry
\* associating c with r: no line-intersection pair is lost.
C2_LinePairsKept ==
    EtlReturned =>
      \A c \in CrimeRows, r \in RouteRows :
         Intersects(c.geometry, r.geometry)
         => \E i \in AssocOfRoute(r.idx) :
               combined_crime_routes[i].crime_data_id = c.idx

\* C3: whenever a crime's polygon contains a stop that belongs to a route of
\* the route table, the association set holds the pair (crime, route), also
\* when the route's line does not intersect the polygon.
C3_StopMethodAssociates ==
    EtlReturned =>
      \A c \in CrimeRows, s \in StopRows, r \in RouteRows :
         ( /\ Contains(c.geometry, s.geometry)
           /\ <<s.STOPID, r.RouteNo>> \in stop_routes )
         => \E i \in 1..Len(combined_crime_routes) :
               /\ combined_crime_routes[i].crime_data_id = c.idx
               /\ combined_crime_routes[i].RouteNo = r.RouteNo

\* C4: for every route of the route table, the Total_Crime_Count written for
\* it is the number of distinct crime identifiers associated with it in the
\* association set, which is the number of its association rows, and is a
\* non-negative integer.
C4_TotalIsAssociationCount ==
    (variant = "etl" /\ geojson_out.written) =>
      /\ Len(geojson_out.rows) = Len(gdf_routes.rows)
      /\ \A k \in 1..Len(gdf_routes.rows) :
            LET total == geojson_out.rows[k].Total_Crime_Count
                assoc == AssocOfRoute(gdf_routes.rows[k].idx)
            IN /\ total \in Nat
               /\ total = Cardinality(assoc)
               /\ total = Cardinality({combined_crime_routes[i].crime_data_id :
                                          i \in assoc})

\* a route with two associated crimes next to a route index that has a gap
C4_Witness ==
    /\ variant = "etl" /\ geojson_out.written
    /\ \E k \in 1..Len(gdf_routes.rows) :
          /\ geojson_out.rows[k].Total_Crime_Count >= 2
          /\ gdf_routes.rows[k].idx # k - 1

RoutePositions == 1..Len(gdf_routes.rows)
Total(k) == geojson_out.rows[k].Total_Crime_Count
Details == stats_out.routes

\* every crime associated with the route at position k has a parsed month
AllMonthsValid(k) ==
    \A i \in AssocOfRoute(gdf_routes.rows[k].idx) :
       CrimeOf(combined_crime_routes[i]).CrimeMonth # NaT

\* the route at position k is the last one of its identifier that has an
\* association: the route loop wrote the identifier's detail entry from it
OwnsDetail(k) ==
    /\ AssocOfRoute(gdf_routes.rows[k].idx) # {}
    /\ \A k2 \in RoutePositions :
          ( /\ gdf_routes.rows[k2].RouteNo = gdf_routes.rows[k].RouteNo
            /\ AssocOfRoute(gdf_routes.rows[k2].idx) # {} )
          => gdf_routes.rows[k2].idx <= gdf_routes.rows[k].idx

TrendConsistent(k) ==
    LET sum == SumMap(Details[gdf_routes.rows[k].RouteNo].monthly_trend)
    IN /\ sum <= Total(k)
       /\ (sum = Total(k)) <=> AllMonthsValid(k)

\* C5 as stated: for every route that has a detail entry, the sum of its
\* monthly_trend counts is at most its total count, with equality iff every
\* crime associated with the route has a valid incident month.
C5_TrendTotalEveryRoute ==
    (variant = "etl" /\ stats_out.written /\ geojson_out.written) =>
      \A k \in RoutePositions :
         gdf_routes.rows[k].RouteNo \in DOMAIN Details => TrendConsistent(k)

\* C5 as amended: every detail entry was written from one route, the last
\* route of that identifier with an association; for that route the sum of
\* the entry's monthly_trend counts is at most its total count, with equality
\* iff every crime associated with it has a valid incident month.
C5_TrendTotalOfEntryOwner ==
    (variant = "etl" /\ stats_out.written /\ geojson_out.written) =>
      /\ \A no \in DOMAIN Details :
            \E k \in RoutePositions : gdf_routes.rows[k].RouteNo = no /\ OwnsDetail(k)
      /\ \A k \in RoutePositions : OwnsDetail(k) => TrendConsistent(k)

\* a route whose entry counts one crime in the trend and two in the total
C5_Witness ==
    /\ variant = "etl" /\ stats_out.written /\ geojson_out.written
    /\ \E k \in RoutePositions :
          /\ OwnsDetail(k)
          /\ Total(k) = 2
          /\ SumMap(Details[gdf_routes.rows[k].RouteNo].monthly_trend) = 1

\* The associations of the geometry-resolved records with the routes, each
\* with the position of its route in the route table and the record's month
\* and offence type.  etl_master: the association set.  elt_master: the
\* resolved records of df_merged that lie within 50 m of the route.
ResolvedAssoc ==
    IF variant = "etl"
    THEN [i \in 1..Len(combined_crime_routes) |->
            [route_pos |-> CHOOSE k \in RoutePositions :
                              gdf_routes.rows[k].idx
                                 = combined_crime_routes[i].route_geom_id,
             CrimeMonth |-> CrimeOf(combined_crime_routes[i]).CrimeMonth,
             OffenceType |-> CrimeOf(combined_crime_routes[i]).OffenceType]]
    ELSE LET bj == buffer_join(DropNaGeometry(df_merged), gdf_routes.rows)
         IN [i \in 1..Len(bj) |->
                [route_pos |-> bj[i].route_geom_id + 1,
                 CrimeMonth |-> bj[i].CrimeMonth,
                 OffenceType |-> bj[i].OffenceType]]

ResolvedAssocAt(k) == {i \in 1..Len(ResolvedAssoc) : ResolvedAssoc[i].route_pos = k}

\* the route at position k is the last one of its identifier with a resolved
\* association
OwnsResolvedDetail(k) ==
    /\ ResolvedAssocAt(k) # {}
    /\ \A k2 \in RoutePositions :
          ( /\ gdf_routes.rows[k2].RouteNo = gdf_routes.rows[k].RouteNo
            /\ ResolvedAssocAt(k2) # {} )
          => k2 <= k

\* Every resolved record associated with the route at position k is counted in
\* the route's total; the trend leaves out exactly those without a parsed
\* month, the breakdown exactly those without an offence type.
ValueTolerantAt(k) ==
    /\ Total(k) = Cardinality(ResolvedAssocAt(k))
    /\ OwnsResolvedDetail(k) =>
          /\ gdf_routes.rows[k].RouteNo \in DOMAIN Details
          /\ SumMap(Details[gdf_routes.rows[k].RouteNo].monthly_trend)
                = Cardinality({i \in ResolvedAssocAt(k) :
                                  ResolvedAssoc[i].CrimeMonth # NaT})
          /\ SumMap(Details[gdf_routes.rows[k].RouteNo].type_breakdown)
                = Cardinality({i \in ResolvedAssocAt(k) :
                                  ResolvedAssoc[i].OffenceType # NaN})

\* C6: in both variants, a geometry-resolved crime record associated with a
\* route whose incident date is unparseable or whose offence category is
\* missing is still counted in the route's total; it is left out only of the
\* view that depends on the missing field and appears in the other view.
C6_ValueLevelTolerance ==
    (pc = "done" /\ geojson_out.written /\ stats_out.written) =>
      \A k \in RoutePositions : ValueTolerantAt(k)

\* the same statement for etl_master alone
C6_EtlValueLevelTolerance ==
    (variant = "etl" /\ pc = "done" /\ geojson_out.written /\ stats_out.written) =>
      \A k \in RoutePositions : ValueTolerantAt(k)

\* the incident month of the i-th association
AssocMonth(i) ==
    IF variant = "etl" THEN CrimeOf(combined_crime_routes[i]).CrimeMonth
    ELSE combined_crime_routes[i].CrimeMonth

AssocValidMonths == {AssocMonth(i) : i \in 1..Len(combined_crime_routes)} \ {NaT}

NotAvailable == {Text("N/A"), Text("N/A (All dates invalid)")}

\* C7: the date range of the metadata is the earliest and the latest incident
\* month over the associated crimes that have a valid month; when no
\* associated crime has one (also with no association or no crime record)
\* both ends are an 'N/A' sentinel, never a date, and the run never fails on
\* formatting NaT.
C7_GlobalDateRange ==
    /\ error # "ValueError: NaT strftime"
    /\ stats_out.written =>
         LET start == stats_out.metadata.crime_period_start
             end == stats_out.metadata.crime_period_end
         IN IF AssocValidMonths # {}
            THEN \E lo, hi \in AssocValidMonths :
                    /\ \A u \in AssocValidMonths :
                          DateKey(lo) <= DateKey(u) /\ DateKey(u) <= DateKey(hi)
                    /\ start = strftime(lo)
                    /\ end = strftime(hi)
            ELSE start \in NotAvailable /\ end \in NotAvailable

\* an associated crime without a valid month next to one with a valid month
C7_Witness ==
    /\ stats_out.written
    /\ \E i \in 1..Len(combined_crime_routes) : AssocMonth(i) = NaT
    /\ AssocValidMonths # {}
    /\ stats_out.metadata.crime_period_start.text = "date"

\* the route-level output has one row per route of the route table, in the
\* table's order
OneRowPerRoute ==
    /\ Len(geojson_out.rows) = Len(gdf_routes.rows)
    /\ \A k \in RoutePositions :
          /\ geojson_out.rows[k].RouteNo = gdf_routes.rows[k].RouteNo
          /\ geojson_out.rows[k].geometry = gdf_routes.rows[k].geometry
          /\ geojson_out.rows[k].Total_Crime_Count \in Nat

HasAssoc(k) == AssocOfRoute(gdf_routes.rows[k].idx) # {}

\* C8 as stated: every route appears exactly once in the route-level output
\* with a count; a route with zero associations appears with count 0 and has
\* no entry in the detail map; the detail map's keys are exactly the
\* identifiers of the routes with at least one association.
C8_ZeroRouteHasNoDetail ==
    (variant = "etl" /\ geojson_out.written /\ stats_out.written) =>
      /\ OneRowPerRoute
      /\ \A k \in RoutePositions :
            ~HasAssoc(k) => /\ Total(k) = 0
                            /\ gdf_routes.rows[k].RouteNo \notin DOMAIN Details
      /\ DOMAIN Details = {gdf_routes.rows[k].RouteNo :
                              k \in {k2 \in RoutePositions : HasAssoc(k2)}}

\* C8 as amended: every route appears exactly once in the route-level output
\* with a count; a route with zero associations appears with count 0; the
\* detail map's keys are exactly the identifiers of the routes with at least
\* one association, so a route with zero associations has no entry unless a
\* route with an association carries the same identifier.
C8_DetailKeysAreAssociatedIdentifiers ==
    (variant = "etl" /\ geojson_out.written /\ stats_out.written) =>
      /\ OneRowPerRoute
      /\ \A k \in RoutePositions :
            ~HasAssoc(k) =>
               /\ Total(k) = 0
               /\ ( gdf_routes.rows[k].RouteNo \in DOMAIN Details
                    <=> \E k2 \in RoutePositions :
                           /\ HasAssoc(k2)
                           /\ gdf_routes.rows[k2].RouteNo = gdf_routes.rows[k].RouteNo )
      /\ DOMAIN Details = {gdf_routes.rows[k].RouteNo :
                              k \in {k2 \in RoutePositions : HasAssoc(k2)}}

\* a route without association and without detail entry next to a route that
\* has both
C8_Witness ==
    /\ variant = "etl" /\ geojson_out.written /\ stats_out.written
    /\ \E k, k2 \in RoutePositions :
          /\ ~HasAssoc(k) /\ Total(k) = 0
          /\ gdf_routes.rows[k].RouteNo \notin DOMAIN Details
          /\ HasAssoc(k2) /\ gdf_routes.rows[k2].RouteNo \in DOMAIN Details

\* the crime stage has returned: the header passed the checks and the
\* meshblock fetch was made, after which fetch_and_clean_police_data raises
\* nothing
CrimeStageReturned ==
    Len(stages) >= 2 /\ stages[2] = "fetch_all_meshblock_geometry"

RunEnded == pc \in {"done", "failed"}

\* the run has ended normally with the output of the empty case: one row of
\* count 0 per route, an empty detail map, the 'N/A' date range
EmptyOutputProduced ==
    /\ pc = "done" /\ exit_status = 0 /\ error = ""
    /\ geojson_out.written /\ stats_out.written
    /\ OneRowPerRoute
    /\ \A k \in RoutePositions : Total(k) = 0
    /\ Details = EmptyMap
    /\ stats_out.metadata.crime_period_start = Text("N/A")
    /\ stats_out.metadata.crime_period_end = Text("N/A")

\* C9: whenever no crime record reaches the association stage (empty crime
\* input, empty or unavailable meshblock table, or no record resolving to a
\* geometry) the run does not fail and produces both artifacts: every route
\* has total count 0, the detail map is empty and both ends of the date range
\* are the 'N/A' sentinel.  A run that ends because the route service cannot
\* be reached is left aside.
C9_EmptyInputClosure ==
    (RunEnded /\ CrimeStageReturned /\ IsEmpty(gdf_crime)
       /\ error # "route fetch failed")
    => EmptyOutputProduced

\* the part of C9 that the code keeps: the crime stage does not fail on an
\* empty or unresolved input, and analyze_and_aggregate, once entered with an
\* empty crime table, produces the output of the empty case
C9_EmptyPathOnceReached ==
    /\ stages = <<"fetch_and_clean_police_data", "fetch_all_meshblock_geometry">>
          => pc = "crime_done"
    /\ ( /\ Len(stages) > 0 /\ stages[Len(stages)] = "analyze_and_aggregate"
         /\ IsEmpty(gdf_crime) )
       => EmptyOutputProduced

HeaderLacksMandatoryColumn ==
    \/ "Year Month" \notin df_crime_columns
    \/ ~(\E col \in df_crime_columns : LowerHasMeshblock(col))

\* C10: if the crime input has no 'Year Month' column, or no column whose name
\* contains 'meshblock', fetch_and_clean_police_data raises, run_etl ends with
\* a non-zero exit status and no later stage runs: no geometry fetch, no
\* spatial analysis, no artifact.
C10_SchemaErrorsAbort ==
    (stages # <<>> /\ HeaderLacksMandatoryColumn) =>
      /\ pc = "failed"
      /\ exit_status = 1
      /\ error \in {"KeyError: Year Month", "KeyError: Meshblock", "download failed"}
      /\ stages = <<"fetch_and_clean_police_data">>
      /\ ~geojson_out.written /\ ~stats_out.written
      /\ gdf_crime = EmptyGeoDataFrame /\ combined_crime_routes = <<>>

\* the header has 'Year Month' but no meshblock-like column
C10_Witness ==
    /\ stages # <<>>
    /\ "Year Month" \in df_crime_columns
    /\ ~(\E col \in df_crime_columns : LowerHasMeshblock(col))
    /\ error = "KeyError: Meshblock"

\* the last stage run_etl has entered
LastStage == IF stages = <<>> THEN "" ELSE stages[Len(stages)]

\* C11: an empty stop set is not an error: when crime records with resolved
\* geometry exist but the stop fetch returned an empty table,
\* analyze_and_aggregate does not raise, run_etl does not exit non-zero and
\* both artifacts are produced.
C11_EmptyStopsNotAnError ==
    ( /\ variant = "etl"
      /\ LastStage = "analyze_and_aggregate"
      /\ gdf_stops = EmptyGeoDataFrame
      /\ ~IsEmpty(gdf_crime) )
    => /\ pc = "done" /\ exit_status = 0 /\ error = ""
       /\ geojson_out.written /\ stats_out.written

-----------------------------------------------------------------------------
(* Area-key standardisation observed on its own: one crime record and one    *)
(* reference entry, each with a raw key, go through stage 1 of etl_master.   *)

MaxKeyLen == 3      \* characters of a drawn raw key

KeyChars == {"0", "1", " "}

\* raw keys: every text of up to MaxKeyLen characters, and three longer ones
RawKeys ==
    SeqsUpTo(KeyChars, MaxKeyLen)
        \cup { <<"1","2","3">>, <<"0","0","0","0","1","2","3">>,
               <<"0","0","0","0","0","1","2","3">> }

\* a crime CSV with one Auckland record carrying the key
KeyCsv(key) ==
    [ok |-> TRUE, columns |-> StandardHeader,
     rows |-> << [mb |-> key, ta |-> <<"A","u","c","k","l","a","n","d">>,
                  ym |-> [sep |-> "/", f |-> <<15, 1, 2023>>], div |-> "Theft"] >>]

\* a fetched reference table with one entry carrying the key
KeyTable(key) == << [MB_number |-> key, geometry |-> {1}] >>

InitKeys ==
    /\ variant = "etl"
    /\ pc = "keys_raw"
    /\ exit_status = -1
    /\ error = ""
    /\ stages = <<>>
    /\ df_crime_columns = {}
    /\ df_auckland = <<>>
    /\ df_merged = <<>>
    /\ unmatched_count = 0
    /\ gdf_crime = EmptyGeoDataFrame
    /\ gdf_routes = EmptyGeoDataFrame
    /\ gdf_stops = EmptyGeoDataFrame
    /\ stop_routes = {}
    /\ combined_crime_routes = <<>>
    /\ geojson_out = NotWritten
    /\ stats_out = NoStats
    /\ raw_keys \in [crime : RawKeys, ref : RawKeys]
    /\ std_keys = <<>>
    /\ NoFetch

\* stage 1 applied to a record and a reference entry with the given keys:
\* MB_number is standardised at line 147, Meshblock at line 204, and the two
\* are compared by the merge at lines 216-221
StandardizeFrom(keys) ==
    LET fetched == KeyTable(keys.ref)
        res == fetch_and_clean_police_data(KeyCsv(keys.crime), fetched)
    IN /\ std_keys' = [crime |-> res.df_auckland[1].Meshblock,
                       ref |-> fetch_all_meshblock_geometry(fetched).rows[1].MB_number]
       /\ df_crime_columns' = res.columns
       /\ df_auckland' = res.df_auckland
       /\ df_merged' = res.df_merged
       /\ unmatched_count' = res.unmatched_count
       /\ gdf_crime' = res.gdf_crime
       /\ UNCHANGED <<variant, exit_status, error, stages, gdf_routes, gdf_stops,
                      stop_routes, combined_crime_routes, geojson_out, stats_out,
                      fetchvars>>

\* the raw keys are standardised and joined
StandardizeKeys ==
    /\ pc = "keys_raw"
    /\ pc' = "keys_std"
    /\ UNCHANGED raw_keys
    /\ StandardizeFrom(raw_keys)

\* the standardised keys are fed in again as raw keys
StandardizeAgain ==
    /\ pc = "keys_std"
    /\ pc' = "keys_again"
    /\ raw_keys' = std_keys
    /\ StandardizeFrom(std_keys)

NextKeys == StandardizeKeys \/ StandardizeAgain

SpecKeys == InitKeys /\ [][NextKeys]_vars

\* a text without its leading "0" characters
DropLeadingZeros(s) ==
    LET nz == {i \in 1..Len(s) : s[i] # "0"}
    IN IF nz = {} THEN <<>>
       ELSE SubSeq(s, CHOOSE i \in nz : \A j \in nz : i <= j, Len(s))

\* two raw keys of at most ZFILL_WIDTH characters that differ only in
\* surrounding blanks and leading zeros denote the same area
SameArea(a, b) ==
    /\ Len(Strip(a)) <= ZFILL_WIDTH
    /\ Len(Strip(b)) <= ZFILL_WIDTH
    /\ DropLeadingZeros(Strip(a)) = DropLeadingZeros(Strip(b))

\* C12: area-key normalisation (strip, then zero-pad to width 7) is idempotent,
\* maps raw keys of different lengths that denote the same area to the same
\* normalised key of the fixed width, and is applied alike to the crime
\* record's Meshblock and the reference table's MB_number before the join, so
\* that such a crime record finds the reference entry.
C12_KeyNormalization ==
    /\ pc = "keys_again" => std_keys = raw_keys
    /\ pc = "keys_std" =>
         /\ raw_keys.crime = raw_keys.ref => std_keys.crime = std_keys.ref
         /\ SameArea(raw_keys.crime, raw_keys.ref) =>
              /\ std_keys.crime = std_keys.ref
              /\ Len(std_keys.crime) = ZFILL_WIDTH
              /\ unmatched_count = 0
              /\ Len(gdf_crime.rows) = 1
              /\ gdf_crime.rows[1].geometry = {1}

\* the crime key "123" has met the reference entry keyed "0000123"
C12_Witness ==
    /\ pc = "keys_std"
    /\ raw_keys = [crime |-> <<"1","2","3">>, ref |-> <<"0","0","0","0","1","2","3">>]
    /\ std_keys.crime = std_keys.ref
    /\ unmatched_count = 0
    /\ Len(gdf_crime.rows) = 1

\* C13: inputs are read-only: analyze_and_aggregate and its helpers leave the
\* caller's route, crime and stop tables as they were (no added column, no
\* changed CRS) on every path, the empty-crime and zero-association paths
\* included.
C13_InputsReadOnly ==
    [][pc = "stops_done" =>
          /\ gdf_routes' = gdf_routes
          /\ gdf_crime' = gdf_crime
          /\ gdf_stops' = gdf_stops]_vars

\* the months and the offence types of the crimes associated with the route
\* at position k, with their numbers of associations
TrendOfRoute(k) ==
    LET assoc == AssocOfRoute(gdf_routes.rows[k].idx)
        dated == {i \in assoc : CrimeOf(combined_crime_routes[i]).CrimeMonth # NaT}
        MonthAt(i) == to_period_M(CrimeOf(combined_crime_routes[i]).CrimeMonth)
    IN [m \in {MonthAt(i) : i \in dated} |->
           Cardinality({i \in dated : MonthAt(i) = m})]

BreakdownOfRoute(k) ==
    LET assoc == AssocOfRoute(gdf_routes.rows[k].idx)
        typed == {i \in assoc : CrimeOf(combined_crime_routes[i]).OffenceType # NaN}
        TypeAt(i) == CrimeOf(combined_crime_routes[i]).OffenceType
    IN [t \in {TypeAt(i) : i \in typed} |->
           Cardinality({i \in typed : TypeAt(i) = t})]

\* the routes at positions k1 < k2 are distinct geometries with one
\* identifier, each with an association, and no later route of the identifier
\* has one
DuplicateIdentifier(k1, k2) ==
    /\ k1 < k2
    /\ gdf_routes.rows[k1].RouteNo = gdf_routes.rows[k2].RouteNo
    /\ gdf_routes.rows[k1].geometry # gdf_routes.rows[k2].geometry
    /\ HasAssoc(k1)
    /\ OwnsDetail(k2)

\* C14: when two distinct route geometries share a route identifier and each
\* has at least one associated crime, the detail map holds one entry for the
\* identifier, whose trend and breakdown are those of the later-processed
\* geometry only, while each geometry has its own total count in the
\* route-level output.
C14_DuplicateIdentifierOverwrites ==
    (variant = "etl" /\ stats_out.written /\ geojson_out.written) =>
      \A k1, k2 \in RoutePositions :
         DuplicateIdentifier(k1, k2) =>
            LET no == gdf_routes.rows[k2].RouteNo
            IN /\ no \in DOMAIN Details
               /\ Details[no].monthly_trend = TrendOfRoute(k2)
               /\ Details[no].type_breakdown = BreakdownOfRoute(k2)
               /\ Total(k1) = Cardinality(AssocOfRoute(gdf_routes.rows[k1].idx))
               /\ Total(k2) = Cardinality(AssocOfRoute(gdf_routes.rows[k2].idx))

\* two geometries of one identifier with one association each, in different
\* months: the entry shows the later geometry's month
C14_Witness ==
    /\ variant = "etl" /\ stats_out.written /\ geojson_out.written
    /\ \E k1, k2 \in RoutePositions :
          /\ DuplicateIdentifier(k1, k2)
          /\ TrendOfRoute(k1) # TrendOfRoute(k2)
          /\ Total(k1) = 1 /\ Total(k2) = 1
          /\ Details[gdf_routes.rows[k2].RouteNo].monthly_trend = TrendOfRoute(k2)

-----------------------------------------------------------------------------
(* The paginated fetch on its own: fetch_arcgis_geometry of etl_master and   *)
(* the loop of elt_master.fetch_all_meshblock_geometry, against a feature    *)
(* service that holds service.count rows and answers a page request with the *)
(* rows from the requested offset on: as many as were asked for, or no more  *)
(* than its own cap service.cap, or none, or with an error.                  *)

MAX_RECORDS == 500          \* etl_master
MAX_RECORDS_elt == 2000     \* elt_master

\* 'resultRecordCount': MAX_RECORDS of the program that runs
resultRecordCount == IF variant = "etl" THEN MAX_RECORDS ELSE MAX_RECORDS_elt

min(a, b) == IF a <= b THEN a ELSE b

\* (rows held, own page cap) of the services fetched from
ServiceKinds ==
    { [count |-> 0, cap |-> 1000], [count |-> 1, cap |-> 1000],
      [count |-> 3, cap |-> 1], [count |-> 4, cap |-> 2],
      [count |-> 500, cap |-> 1000], [count |-> 501, cap |-> 1000],
      [count |-> 1200, cap |-> 1000], [count |-> 1200, cap |-> 200],
      [count |-> 2001, cap |-> 3000] }

\* the rows of the service, in its order: row i is numbered i
ServiceRows == [i \in 1..service.count |-> i]

\* the features a page request at resultOffset o returns when it returns k rows
page_rows(o, k) == [i \in 1..k |-> o + i]

\* the numbers of rows a non-empty answer to a request at offset o can hold:
\* resultRecordCount rows or the service's own cap, and never more than remain
PageSizes(o) ==
    { min(resultRecordCount, service.count - o),
      min(min(service.cap, resultRecordCount), service.count - o) }

\* faulty variant: the offset is not advanced
next_offset_stuck(o, gdf_batch) == o

\* offset += len(gdf_batch)
next_offset(o, gdf_batch) == o + Len(gdf_batch)

\* faulty variant: only the last batch is returned
concat_last_batch(batches) ==
    IF batches = <<>> THEN <<>> ELSE batches[Len(batches)]

\* faulty variant: the batches are put together last batch first
concat_reversed(batches) ==
    Flatten([i \in 1..Len(batches) |-> batches[Len(batches) + 1 - i]])

\* the table returned after the loop: GeoDataFrame() when all_geometry is
\* empty, else pd.concat(all_geometry, ignore_index=True)
concat(batches) == Flatten(batches)

InitFetch ==
    /\ variant \in Variants
    /\ pc = "fetch_count"
    /\ exit_status = -1
    /\ error = ""
    /\ stages = <<>>
    /\ df_crime_columns = {}
    /\ df_auckland = <<>>
    /\ df_merged = <<>>
    /\ unmatched_count = 0
    /\ gdf_crime = EmptyGeoDataFrame
    /\ gdf_routes = EmptyGeoDataFrame
    /\ gdf_stops = EmptyGeoDataFrame
    /\ stop_routes = {}
    /\ combined_crime_routes = <<>>
    /\ geojson_out = NotWritten
    /\ stats_out = NoStats
    /\ NoKeys
    /\ service \in ServiceKinds
    /\ total_count = 0
    /\ offset = 0
    /\ all_geometry = <<>>
    /\ requests = <<>>
    /\ gdf_final = <<>>

\* what a fetch leaves alone
FetchFrame ==
    UNCHANGED <<variant, exit_status, error, stages, df_crime_columns, df_auckland,
                df_merged, unmatched_count, gdf_crime, gdf_routes, gdf_stops,
                stop_routes, combined_crime_routes, geojson_out, stats_out, keyvars,
                service>>

\* the loop has been left: the function returns its table
ReturnTable ==
    /\ pc' = "fetch_returned"
    /\ gdf_final' = concat(all_geometry)

\* the count request answers; a count of zero returns GeoDataFrame() at once
CountRequest ==
    /\ pc = "fetch_count"
    /\ total_count' = service.count
    /\ IF service.count = 0 THEN ReturnTable ELSE pc' = "fetch_loop" /\ UNCHANGED gdf_final
    /\ UNCHANGED <<offset, all_geometry, requests>>
    /\ FetchFrame

\* the count request raises: GeoDataFrame() is returned
CountFails ==
    /\ pc = "fetch_count"
    /\ ReturnTable
    /\ UNCHANGED <<total_count, offset, all_geometry, requests>>
    /\ FetchFrame

\* one pass of the loop body with a non-empty batch
PageRequest ==
    /\ pc = "fetch_loop"
    /\ offset < total_count
    /\ \E k \in PageSizes(offset) :
         LET gdf_batch == page_rows(offset, k)
         IN /\ requests' = Append(requests, [offset |-> offset, returned |-> k])
            /\ all_geometry' = Append(all_geometry, gdf_batch)
            /\ offset' = next_offset(offset, gdf_batch)
    /\ UNCHANGED <<pc, total_count, gdf_final>>
    /\ FetchFrame

\* the answer holds no feature: break
PageEmpty ==
    /\ pc = "fetch_loop"
    /\ offset < total_count
    /\ requests' = Append(requests, [offset |-> offset, returned |-> 0])
    /\ ReturnTable
    /\ UNCHANGED <<total_count, offset, all_geometry>>
    /\ FetchFrame

\* the request or the parsing of its answer raises: except ... break
PageRaises ==
    /\ pc = "fetch_loop"
    /\ offset < total_count
    /\ requests' = Append(requests, [offset |-> offset, returned |-> -1])
    /\ ReturnTable
    /\ UNCHANGED <<total_count, offset, all_geometry>>
    /\ FetchFrame

\* while offset < total_count is false
LoopDone ==
    /\ pc = "fetch_loop"
    /\ offset >= total_count
    /\ ReturnTable
    /\ UNCHANGED <<total_count, offset, all_geometry, requests>>
    /\ FetchFrame

NextFetch ==
    CountRequest \/ CountFails \/ PageRequest \/ PageEmpty \/ PageRaises \/ LoopDone

SpecFetch == InitFetch /\ [][NextFetch]_vars

\* the program runs on until the function returns
SpecFetchLive == SpecFetch /\ WF_vars(NextFetch)

\* the count request was answered with the number of rows the service holds
Reported == total_count = service.count

\* every page request so far was answered with a full page: as many rows as
\* were asked for, or the remainder on the last page
AllPagesFull ==
    \A i \in 1..Len(requests) :
       requests[i].returned = min(resultRecordCount, total_count - requests[i].offset)

\* ceil(n / resultRecordCount)
PagesOf(n) == (n + resultRecordCount - 1) \div resultRecordCount

\* C15: when the service reports N rows and every page request succeeds with a
\* full page, the paginated fetch issues exactly ceil(N / MAX_RECORDS) page
\* requests, at the offsets 0, MAX_RECORDS, 2 * MAX_RECORDS, ..., and returns
\* one table of exactly the N rows; for N = 1200 and the page size 500 of
\* fetch_arcgis_geometry these are three pages of 500, 500 and 200 rows.
C15_PaginationComplete ==
    (Reported /\ AllPagesFull) =>
       /\ \A i \in 1..Len(requests) : requests[i].offset = (i - 1) * resultRecordCount
       /\ pc = "fetch_returned" =>
            /\ Len(requests) = PagesOf(total_count)
            /\ Len(gdf_final) = total_count
            /\ gdf_final = ServiceRows
            /\ (variant = "etl" /\ total_count = 1200) =>
                 [i \in 1..Len(requests) |-> requests[i].returned] = <<500, 500, 200>>

\* 1200 rows were fetched in three full pages
C15_Witness ==
    /\ variant = "etl"
    /\ pc = "fetch_returned"
    /\ Reported /\ AllPagesFull
    /\ total_count = 1200
    /\ Len(requests) = 3
    /\ Len(gdf_final) = 1200

\* the rows of the non-empty answers so far
RowsFetched ==
    LET got == {i \in 1..Len(requests) : requests[i].returned > 0}
    IN IF got = {} THEN 0 ELSE SumMap([i \in got |-> requests[i].returned])

\* the last page request raised or was answered with an empty batch
LastPageFailed ==
    requests # <<>> /\ requests[Len(requests)].returned <= 0

\* C16: a failed page truncates: when a page request raises or returns an
\* empty batch, no further page is requested and the function returns exactly
\* the rows of the pages fetched before it, in fetch order, a prefix of the
\* full set; the returned table is empty only when no page was fetched, and
\* the failure is not propagated.
C16_FailedPageTruncates ==
    /\ \A i \in 1..Len(requests) : requests[i].returned <= 0 => i = Len(requests)
    /\ LastPageFailed =>
         /\ pc = "fetch_returned"
         /\ error = "" /\ exit_status = -1
         /\ gdf_final = Flatten(all_geometry)
         /\ Len(gdf_final) = RowsFetched
         /\ gdf_final = SubSeq(ServiceRows, 1, RowsFetched)
    /\ pc = "fetch_returned" => (gdf_final = <<>> <=> all_geometry = <<>>)

\* the third page request failed after two pages, one of them short
C16_Witness ==
    /\ variant = "etl"
    /\ pc = "fetch_returned"
    /\ LastPageFailed
    /\ Len(requests) = 3
    /\ requests[1].returned # requests[2].returned
    /\ Len(gdf_final) = 700
    /\ Len(gdf_final) < total_count

\* C17: the paginated fetch loop always ends, whatever the service returns:
\* every iteration either leaves the loop (exception or empty batch) or
\* raises the offset by the number of rows returned, which is at least one,
\* so that no more than total_count iterations run, also with pages shorter
\* than requested; the function then returns.
C17_FetchLoopTerminates ==
    /\ [](Len(requests) <= total_count /\ offset = RowsFetched)
    /\ [][pc = "fetch_loop" =>
            \/ pc' = "fetch_returned"
            \/ /\ requests' # requests
               /\ offset' > offset
               /\ offset' = offset + requests'[Len(requests')].returned]_vars
    /\ <>(pc = "fetch_returned")

\* a fetch of three rows in three pages of one row each has returned
C17_Witness ==
    /\ pc = "fetch_returned"
    /\ total_count = 3
    /\ Len(requests) = 3
    /\ \A i \in 1..3 : requests[i].returned = 1
    /\ Len(gdf_final) = 3

\* C18: geometry resolution partitions the district-filtered crime records:
\* every filtered record yields exactly one row after the key join, resolved
\* (it carries a geometry and is passed downstream) or unmatched (counted in
\* unmatched_count and dropped), so that resolved count + unmatched count =
\* filtered record count, for any reference table, one with repeated keys
\* included.
C18_ResolutionPartitions ==
    (variant = "etl" /\ pc \in {"crime_done", "routes_done", "stops_done"}) =>
       /\ Len(df_merged) = Len(df_auckland)
       /\ Len(gdf_crime.rows) + unmatched_count = Len(df_auckland)

=============================================================================
